---- MODULE Spec2Model ----
(***************************************************************************)
(* Doubao streaming speech recognition over the binary WebSocket framing   *)
(* protocol: the frame codec, the create_session handshake, the background *)
(* duplex pump and the two bounded channels of StreamingSession            *)
(* (crates/doubao/src/asr/streaming.rs).                                   *)
(*                                                                         *)
(* Bytes are integers 0..255, byte strings are sequences of bytes, and an  *)
(* Option<T> is a sequence of at most one T (None == <<>>).                *)
(***************************************************************************)
EXTENDS Integers, Sequences, FiniteSets, TLC

(***************************************************************************)
(* Bounds of the model.                                                    *)
(***************************************************************************)
\* mpsc::channel capacity of audio_tx/audio_rx and result_tx/result_rx.
\* The code creates both with 32; the model is parametric in it.
ChannelCapacity == 2
\* Number of send_audio calls the caller makes.
MaxChunks == 3
\* Number of decodable ASR-result frames the server sends.
MaxResults == 3
\* Number of inbound messages the program reads and discards.
MaxDiscarded == 1
\* Number of FinishSession frames the pump may write.
MaxFinish == 2
\* Number of audio frames the TTS server sends to one Speech::create call.
MaxAudioFrames == 2

(***************************************************************************)
(* Protocol constants (spec/asr/protocol.rs).                              *)
(***************************************************************************)
STREAMING_PROTOCOL_VERSION == 17
STREAMING_MSG_FULL_CLIENT == 20
STREAMING_MSG_FULL_SERVER == 148
STREAMING_MSG_AUDIO_ONLY_CLIENT == 36
STREAMING_SERIAL_JSON == 16
STREAMING_COMPRESS_NONE == 0
STREAMING_EVENT_START_CONNECTION == 1
STREAMING_EVENT_FINISH_CONNECTION == 2
STREAMING_EVENT_CONNECTION_STARTED == 50
STREAMING_EVENT_CONNECTION_FAILED == 51
STREAMING_EVENT_START_SESSION == 100
STREAMING_EVENT_FINISH_SESSION == 102
STREAMING_EVENT_SESSION_STARTED == 150
STREAMING_EVENT_SESSION_FINISHED == 152
STREAMING_EVENT_SESSION_FAILED == 153
STREAMING_EVENT_TASK_REQUEST == 200
STREAMING_EVENT_ASR_RESULT == 350

(***************************************************************************)
(* Option and byte helpers.                                                *)
(***************************************************************************)
None == <<>>
Some(x) == <<x>>

\* i32::to_be_bytes, and u32::to_be_bytes of a length below 2^31: the four
\* bytes of the 32-bit two's complement, computed within 32-bit integers.
to_be_bytes(n) ==
    LET m == IF n < 0 THEN (n + 2147483647) + 1 ELSE n
        top == IF n < 0 THEN 128 ELSE 0
    IN  << top + (m \div 16777216), (m \div 65536) % 256, (m \div 256) % 256, m % 256 >>

\* i32::from_be_bytes of the four bytes of data at 0-based offset off.
i32_from_be_bytes(data, off) ==
    (IF data[off + 1] >= 128 THEN data[off + 1] - 256 ELSE data[off + 1]) * 16777216
    + data[off + 2] * 65536 + data[off + 3] * 256 + data[off + 4]

\* A usize is kept as <<high, low>> with value high * 65536 + low, so that a
\* u32 above 2^31 and sums of them are exact.
usize(n) == << n \div 65536, n % 65536 >>
usize_add(a, b) ==
    LET low == a[2] + b[2]
    IN  << a[1] + b[1] + (low \div 65536), low % 65536 >>
usize_lt(a, b) == a[1] < b[1] \/ (a[1] = b[1] /\ a[2] < b[2])
\* The integer a usize below 2^31 is.
usize_int(a) == a[1] * 65536 + a[2]

\* u32::from_be_bytes(..) as usize of the four bytes of data at 0-based offset off.
u32_from_be_bytes(data, off) ==
    << data[off + 1] * 256 + data[off + 2], data[off + 3] * 256 + data[off + 4] >>

\* The bitwise or of the serialization nibble and the compression nibble
\* (their set bits are disjoint, so `|` is their sum).
SerialAndCompress == STREAMING_SERIAL_JSON + STREAMING_COMPRESS_NONE

(***************************************************************************)
(* serde_json::Value, restricted to null, booleans, non-negative integers, *)
(* strings without escapes, and objects (keys kept sorted, as serde_json's *)
(* default map does).  Every value has the same record shape.              *)
(***************************************************************************)
JNull == [t |-> "null", b |-> FALSE, n |-> 0, s |-> <<>>, m |-> <<>>]
JBool(x) == [t |-> "bool", b |-> x, n |-> 0, s |-> <<>>, m |-> <<>>]
JNum(x) == [t |-> "num", b |-> FALSE, n |-> x, s |-> <<>>, m |-> <<>>]
JStr(x) == [t |-> "str", b |-> FALSE, n |-> 0, s |-> x, m |-> <<>>]
\* An object: a sequence of <<key, value>> pairs.
JObj(x) == [t |-> "obj", b |-> FALSE, n |-> 0, s |-> <<>>, m |-> x]

\* ASCII of the key and literal names used.
K_result == <<114, 101, 115, 117, 108, 116>>
K_text == <<116, 101, 120, 116>>
K_definite == <<100, 101, 102, 105, 110, 105, 116, 101>>
K_additions == <<97, 100, 100, 105, 116, 105, 111, 110, 115>>
K_event == <<101, 118, 101, 110, 116>>
A_true == <<116, 114, 117, 101>>
A_false == <<102, 97, 108, 115, 101>>
A_null == <<110, 117, 108, 108>>

RECURSIVE Digits(_)
Digits(n) == IF n < 10 THEN <<48 + n>> ELSE Digits(n \div 10) \o <<48 + (n % 10)>>

Quoted(s) == <<34>> \o s \o <<34>>

\* Value::to_string: the compact serialization.
RECURSIVE JsonToString(_)
RECURSIVE JsonMembers(_, _)
JsonMembers(m, i) ==
    IF i > Len(m) THEN <<>>
    ELSE (IF i > 1 THEN <<44>> ELSE <<>>)
         \o Quoted(m[i][1]) \o <<58>> \o JsonToString(m[i][2])
         \o JsonMembers(m, i + 1)
JsonToString(v) ==
    CASE v.t = "null" -> A_null
      [] v.t = "bool" -> (IF v.b THEN A_true ELSE A_false)
      [] v.t = "num" -> Digits(v.n)
      [] v.t = "str" -> Quoted(v.s)
      [] v.t = "obj" -> <<123>> \o JsonMembers(v.m, 1) \o <<125>>

\* json!({})
EmptyObject == JObj(<<>>)

\* Value indexing: value[key] is Null when value is no object or has no such key.
JsonIndex(v, key) ==
    IF v.t = "obj" /\ \E i \in 1..Len(v.m) : v.m[i][1] = key
    THEN v.m[CHOOSE i \in 1..Len(v.m) : v.m[i][1] = key][2]
    ELSE JNull

\* Value::get(key) -> Option<&Value>
JsonGet(v, key) ==
    IF v.t = "obj" /\ \E i \in 1..Len(v.m) : v.m[i][1] = key
    THEN Some(v.m[CHOOSE i \in 1..Len(v.m) : v.m[i][1] = key][2])
    ELSE None

as_str(v) == IF v.t = "str" THEN Some(v.s) ELSE None
as_bool(v) == IF v.t = "bool" THEN Some(v.b) ELSE None
unwrap_or(opt, default) == IF opt = None THEN default ELSE opt[1]

(***************************************************************************)
(* The JSON documents a server payload of the model can hold.              *)
(***************************************************************************)
\* The k-th recognition result the server produces: texts "a", "b", "c", ..
\* all differ, so a lost, repeated or reordered result shows; the odd ones
\* are definite, the even ones leave `definite` out.
ResultDoc(k) ==
    JObj(<< <<K_result,
              JObj(IF k % 2 = 1
                   THEN << <<K_definite, JBool(TRUE)>>, <<K_text, JStr(<<96 + k>>)>> >>
                   ELSE << <<K_text, JStr(<<96 + k>>)>> >>)>> >>)
JsonDocuments == {EmptyObject} \cup { ResultDoc(k) : k \in 1..(MaxResults + 1) }

\* serde_json::from_slice(..).ok(): the document whose text the bytes are, None
\* when the bytes are the text of no document.
JsonFromSlice(bytes) ==
    IF \E v \in JsonDocuments : JsonToString(v) = bytes
    THEN Some(CHOOSE v \in JsonDocuments : JsonToString(v) = bytes)
    ELSE None

(***************************************************************************)
(* Frame codec (asr/streaming.rs).                                         *)
(***************************************************************************)
\* build_event_frame(event, session_id: Option<&str>, payload: &Value)
build_event_frame(event, session_id, payload) ==
    LET header == <<STREAMING_PROTOCOL_VERSION, STREAMING_MSG_FULL_CLIENT,
                    SerialAndCompress, 0>>
        sid == IF session_id = None THEN <<>>
               ELSE to_be_bytes(Len(session_id[1])) \o session_id[1]
        payload_bytes == JsonToString(payload)
    IN  header \o to_be_bytes(event) \o sid
        \o to_be_bytes(Len(payload_bytes)) \o payload_bytes

\* build_audio_frame tagging the frame as a full client request.
build_audio_frame_full_client(session_id, audio_data) ==
    <<STREAMING_PROTOCOL_VERSION, STREAMING_MSG_FULL_CLIENT, SerialAndCompress, 0>>
    \o to_be_bytes(STREAMING_EVENT_TASK_REQUEST)
    \o to_be_bytes(Len(session_id)) \o session_id
    \o to_be_bytes(Len(audio_data)) \o audio_data

\* build_audio_frame(session_id: &str, audio_data: &[u8])
build_audio_frame(session_id, audio_data) ==
    <<STREAMING_PROTOCOL_VERSION, STREAMING_MSG_AUDIO_ONLY_CLIENT, SerialAndCompress, 0>>
    \o to_be_bytes(STREAMING_EVENT_TASK_REQUEST)
    \o to_be_bytes(Len(session_id)) \o session_id
    \o to_be_bytes(Len(audio_data)) \o audio_data

\* parse_event reading only the two low bytes of the event field.
parse_event_low16(data) ==
    IF Len(data) < 8 THEN None ELSE Some(data[7] * 256 + data[8])

\* parse_event(data) -> Option<i32>
parse_event(data) ==
    IF Len(data) < 8 THEN None ELSE Some(i32_from_be_bytes(data, 4))

\* parse_asr_result taking the bytes that are present when the declared payload
\* length passes the end of the frame.
parse_asr_result_clamped(data, session_id) ==
    IF Len(data) < 12 THEN None
    ELSE
    LET session_id_len == u32_from_be_bytes(data, 8)
        payload_offset == usize_add(usize(12), session_id_len)
    IN  IF usize_lt(usize(Len(data)), usize_add(payload_offset, usize(4))) THEN None
        ELSE
        LET payload_len == u32_from_be_bytes(data, usize_int(payload_offset))
            payload_start == usize_add(payload_offset, usize(4))
            payload_end == IF usize_lt(usize(Len(data)), usize_add(payload_start, payload_len))
                           THEN Len(data)
                           ELSE usize_int(payload_start) + usize_int(payload_len)
            payload_bytes == SubSeq(data, usize_int(payload_start) + 1, payload_end)
            parsed == JsonFromSlice(payload_bytes)
        IN  IF parsed = None THEN None
            ELSE
            LET payload == parsed[1]
                result == JsonIndex(payload, K_result)
            IN  Some([session_id |-> session_id,
                      text |-> unwrap_or(as_str(JsonIndex(result, K_text)), <<>>),
                      additions |-> JsonGet(payload, K_additions),
                      is_final |-> unwrap_or(as_bool(JsonIndex(result, K_definite)), FALSE)])

\* parse_asr_result(data, session_id) -> Option<StreamingAsrResult>
parse_asr_result(data, session_id) ==
    IF Len(data) < 12 THEN None
    ELSE
    LET session_id_len == u32_from_be_bytes(data, 8)
        payload_offset == usize_add(usize(12), session_id_len)
    IN  IF usize_lt(usize(Len(data)), usize_add(payload_offset, usize(4))) THEN None
        ELSE
        LET payload_len == u32_from_be_bytes(data, usize_int(payload_offset))
            payload_start == usize_add(payload_offset, usize(4))
        IN  IF usize_lt(usize(Len(data)), usize_add(payload_start, payload_len)) THEN None
            ELSE
            LET payload_bytes == SubSeq(data, usize_int(payload_start) + 1,
                                        usize_int(payload_start) + usize_int(payload_len))
                parsed == JsonFromSlice(payload_bytes)
            IN  IF parsed = None THEN None
                ELSE
                LET payload == parsed[1]
                    result == JsonIndex(payload, K_result)
                IN  Some([session_id |-> session_id,
                          text |-> unwrap_or(as_str(JsonIndex(result, K_text)), <<>>),
                          additions |-> JsonGet(payload, K_additions),
                          is_final |-> unwrap_or(as_bool(JsonIndex(result, K_definite)), FALSE)])

(***************************************************************************)
(* Frame codec of the TTS side (spec/tts/protocol.rs).                     *)
(***************************************************************************)
PROTOCOL_VERSION == 17
MSG_TYPE_FULL_CLIENT == 20
MSG_TYPE_FULL_SERVER == 148
MSG_TYPE_AUDIO_ONLY == 180
SERIALIZATION_JSON == 16
NO_COMPRESSION == 0
RESERVED == 0

\* build_event_frame writing a session-id length field (of zero) also when no
\* session id is given.
tts_build_event_frame_padded(event, session_id, payload) ==
    LET header == <<PROTOCOL_VERSION, MSG_TYPE_FULL_CLIENT,
                    SERIALIZATION_JSON + NO_COMPRESSION, RESERVED>>
        sid == IF session_id = None THEN to_be_bytes(0)
               ELSE to_be_bytes(Len(session_id[1])) \o session_id[1]
        payload_bytes == JsonToString(payload)
    IN  header \o to_be_bytes(event) \o sid
        \o to_be_bytes(Len(payload_bytes)) \o payload_bytes

\* protocol::build_event_frame(event, session_id: Option<&str>, payload: &Value);
\* SERIALIZATION_JSON | NO_COMPRESSION is a sum, their set bits being disjoint.
tts_build_event_frame(event, session_id, payload) ==
    LET header == <<PROTOCOL_VERSION, MSG_TYPE_FULL_CLIENT,
                    SERIALIZATION_JSON + NO_COMPRESSION, RESERVED>>
        sid == IF session_id = None THEN <<>>
               ELSE to_be_bytes(Len(session_id[1])) \o session_id[1]
        payload_bytes == JsonToString(payload)
    IN  header \o to_be_bytes(event) \o sid
        \o to_be_bytes(Len(payload_bytes)) \o payload_bytes

\* parse_event refusing a frame of exactly 8 bytes.
tts_parse_event_short(data) ==
    IF Len(data) <= 8 THEN None ELSE Some(i32_from_be_bytes(data, 4))

\* protocol::parse_event(data) -> Option<i32>
tts_parse_event(data) ==
    IF Len(data) < 8 THEN None ELSE Some(i32_from_be_bytes(data, 4))

\* extract_audio_from_frame not skipping the payload size field.
extract_audio_from_frame_early(data) ==
    IF Len(data) < 4 THEN None
    ELSE IF data[2] = MSG_TYPE_AUDIO_ONLY
    THEN IF Len(data) < 12 THEN None
         ELSE LET session_id_len == u32_from_be_bytes(data, 8)
                  audio_offset == usize_add(usize(12), session_id_len)
              IN  IF usize_lt(audio_offset, usize(Len(data)))
                  THEN Some(SubSeq(data, usize_int(audio_offset) + 1, Len(data)))
                  ELSE None
    ELSE None

\* protocol::extract_audio_from_frame(data) -> Option<Vec<u8>>; the println!
\* calls have no effect on the value.
extract_audio_from_frame(data) ==
    IF Len(data) < 4 THEN None
    ELSE IF data[2] = MSG_TYPE_AUDIO_ONLY
    THEN IF Len(data) < 12 THEN None
         ELSE LET session_id_len == u32_from_be_bytes(data, 8)
                  audio_offset == usize_add(usize_add(usize(12), session_id_len), usize(4))
              IN  IF usize_lt(audio_offset, usize(Len(data)))
                  THEN Some(SubSeq(data, usize_int(audio_offset) + 1, Len(data)))
                  ELSE None
    ELSE None

(***************************************************************************)
(* What read.next() yields: Some(Ok(Message)), Some(Err(_)) or None.       *)
(***************************************************************************)
Binary(data) == [kind |-> "Binary", data |-> data]
Other(kind) == [kind |-> kind, data |-> <<>>]

\* A server frame: the layout of build_event_frame with message type 0x94 and
\* the payload given as bytes.
ServerFrame(event, session_id, payload_bytes) ==
    <<STREAMING_PROTOCOL_VERSION, STREAMING_MSG_FULL_SERVER, SerialAndCompress, 0>>
    \o to_be_bytes(event)
    \o (IF session_id = None THEN <<>>
        ELSE to_be_bytes(Len(session_id[1])) \o session_id[1])
    \o to_be_bytes(Len(payload_bytes)) \o payload_bytes

EmptyPayload == JsonToString(EmptyObject)

\* The k-th decodable ASR-result frame of session sid.
ResultFrame(sid, k) ==
    ServerFrame(STREAMING_EVENT_ASR_RESULT, Some(sid), JsonToString(ResultDoc(k)))

\* ASR-result frames parse_asr_result rejects: a payload that is no JSON, and a
\* declared payload length longer than the bytes present.
BadResultFrames(sid) ==
    { ServerFrame(STREAMING_EVENT_ASR_RESULT, Some(sid), <<123>>),
      SubSeq(ResultFrame(sid, 1), 1, 8 + 4 + Len(sid) + 4 + 3) }

\* Control frames, and a frame shorter than the 8 bytes parse_event needs.
ControlFrames(sid) ==
    { ServerFrame(STREAMING_EVENT_CONNECTION_STARTED, None, EmptyPayload),
      ServerFrame(STREAMING_EVENT_CONNECTION_FAILED, None, EmptyPayload),
      ServerFrame(STREAMING_EVENT_SESSION_STARTED, Some(sid), EmptyPayload),
      ServerFrame(STREAMING_EVENT_SESSION_FINISHED, Some(sid), EmptyPayload),
      ServerFrame(STREAMING_EVENT_SESSION_FAILED, Some(sid), EmptyPayload),
      <<STREAMING_PROTOCOL_VERSION, STREAMING_MSG_FULL_SERVER, SerialAndCompress>> }

\* What the socket can yield next, the server having sent k - 1 results.
Inbound(sid, k) ==
    { Binary(d) : d \in ControlFrames(sid) \cup {ResultFrame(sid, k)} \cup BadResultFrames(sid) }
    \cup { Other(kind) : kind \in {"Text", "Ping", "Pong", "Close", "Err", "End"} }

\* uuid::Uuid::new_v4().to_string(), as short byte strings.
SessionIds == { <<97>>, <<97, 98>> }

\* The k-th audio chunk the caller passes to send_audio: all chunks differ, so
\* a lost, repeated or reordered chunk shows; their lengths alternate.
Chunk(k) == IF k % 2 = 1 THEN <<k>> ELSE <<k, k>>

(***************************************************************************)
(* DoubaoError values and the result of create_session.                    *)
(***************************************************************************)
Pending == [tag |-> "Pending", expected |-> 0]
Ok == [tag |-> "Ok", expected |-> 0]
ErrWebSocket == [tag |-> "WebSocket", expected |-> 0]
ErrProtocol == [tag |-> "Protocol", expected |-> 0]
ErrEventNotReceived(e) == [tag |-> "EventNotReceived", expected |-> e]

(***************************************************************************)
(* State.                                                                  *)
(***************************************************************************)
VARIABLES
    pc,            \* position of StreamingSession::new
    ret,           \* what create_session returned (Pending while it runs)
    cause,         \* what the transport did when create_session failed
    session_id,    \* the session id generated by new
    written,       \* frames written to the socket, in order
    acks,          \* <<event, Len(written)>> of each acknowledgement wait_for_event returned on
    discarded,     \* number of inbound messages read and dropped
    failure_read,  \* a ConnectionFailed / SessionFailed frame was read during the handshake
    last_discarded,\* class of the last message read and dropped: "-", "event", "malformed", "message", "error"
    pump,          \* background task: "none", "select", "publish", "sleep", "done"
    finished,      \* the pump's local `finished`
    pending,       \* the result a suspended result_tx.send holds
    audio_q,       \* audio channel buffer (audio_tx -> audio_rx)
    result_q,      \* result channel buffer (result_tx -> result_rx)
    caller,        \* holder of the StreamingSession: "none", "idle", "send_audio", "recv", "dropped"
    chunk,         \* argument of the send_audio call in progress
    sent,          \* chunks of the send_audio calls that returned Ok, in order
    decoded,       \* results the pump decoded and passed to a live result channel, in order
    delivered,     \* results recv() returned, in order
    recv_ret,      \* what the last recv() returned: "-", "Some", "None"
    send_ret,      \* what the last send_audio returned: "-", "Ok", "Err"
    close_called,  \* close() has been called
    codec,         \* the frame codec applied on its own: inputs, buffer, outputs
    speech         \* one Speech::create call: position, frames written, audio collected

session_vars == << pc, ret, cause, session_id, written, acks, discarded, failure_read,
                  last_discarded, pump, finished, pending, audio_q, result_q, caller,
                  chunk, sent, decoded, delivered, recv_ret, send_ret, close_called >>

vars == << session_vars, codec, speech >>

\* The codec at rest: nothing built, nothing decoded.
CodecIdle ==
    [stage |-> "idle", event |-> 0, session_id |-> None, payload |-> EmptyObject,
     audio |-> <<>>, built |-> "-", edit |-> "-", buf |-> <<>>,
     out |-> [event |-> None, tts_event |-> None, audio |-> None, result |-> None]]

SessionInit ==
    /\ pc = "connect"
    /\ ret = Pending
    /\ cause = "-"
    /\ session_id \in SessionIds
    /\ written = <<>>
    /\ acks = <<>>
    /\ discarded = 0
    /\ failure_read = FALSE
    /\ last_discarded = "-"
    /\ pump = "none"
    /\ finished = FALSE
    /\ pending = None
    /\ audio_q = <<>>
    /\ result_q = <<>>
    /\ caller = "none"
    /\ chunk = <<>>
    /\ sent = <<>>
    /\ decoded = <<>>
    /\ delivered = <<>>
    /\ recv_ret = "-"
    /\ send_ret = "-"
    /\ close_called = FALSE

\* No Speech::create call.
SpeechIdle ==
    [pc |-> "idle", ret |-> Pending, written |-> <<>>, audio_data |-> <<>>,
     frames |-> 0, discarded |-> 0, last |-> "-"]

Init == SessionInit /\ codec = CodecIdle /\ speech = SpeechIdle

(***************************************************************************)
(* create_session: StreamingSession::new up to the spawn of the pump.      *)
(***************************************************************************)
Continue == [done |-> FALSE, value |-> Pending]
Return(v) == [done |-> TRUE, value |-> v]

\* wait_for_event without the comparison with expected_event: any frame that
\* carries an event ends the wait.
wait_for_event_any(item, expected_event) ==
    CASE item.kind = "End" -> Return(ErrEventNotReceived(expected_event))
      [] item.kind = "Err" -> Return(ErrWebSocket)
      [] item.kind = "Binary" ->
            IF parse_event(item.data) # None THEN Return(Ok) ELSE Continue
      [] OTHER -> Continue

\* wait_for_event reporting a fixed event code when the stream ends.
wait_for_event_fixed_code(item, expected_event) ==
    CASE item.kind = "End" -> Return(ErrEventNotReceived(STREAMING_EVENT_CONNECTION_STARTED))
      [] item.kind = "Err" -> Return(ErrWebSocket)
      [] item.kind = "Binary" ->
            IF parse_event(item.data) = Some(expected_event) THEN Return(Ok) ELSE Continue
      [] OTHER -> Continue

\* wait_for_event taking every message other than the awaited one for a
\* protocol error.
wait_for_event_strict(item, expected_event) ==
    CASE item.kind = "End" -> Return(ErrEventNotReceived(expected_event))
      [] item.kind = "Err" -> Return(ErrWebSocket)
      [] item.kind = "Binary" ->
            IF parse_event(item.data) = Some(expected_event)
            THEN Return(Ok) ELSE Return(ErrProtocol)
      [] OTHER -> Return(ErrProtocol)

\* One turn of wait_for_event's loop on the item read.next() yielded.
wait_for_event(item, expected_event) ==
    CASE item.kind = "End" -> Return(ErrEventNotReceived(expected_event))
      [] item.kind = "Err" -> Return(ErrWebSocket)
      [] item.kind = "Binary" ->
            IF parse_event(item.data) = Some(expected_event) THEN Return(Ok) ELSE Continue
      [] OTHER -> Continue

\* The failure event the protocol pairs with an awaited acknowledgement.
FailureOf(expected_event) ==
    IF expected_event = STREAMING_EVENT_CONNECTION_STARTED
    THEN STREAMING_EVENT_CONNECTION_FAILED
    ELSE STREAMING_EVENT_SESSION_FAILED

IsFailure(item, expected_event) ==
    item.kind = "Binary" /\ parse_event(item.data) = Some(FailureOf(expected_event))

\* Request::builder()...body(()) and connect_async(ws_request).await?
Connect ==
    /\ pc = "connect" /\ ret = Pending
    /\ \E outcome \in {"connected", "bad_request", "refused"} :
         CASE outcome = "connected" ->
                pc' = "send_start_connection" /\ UNCHANGED <<ret, cause>>
           [] outcome = "bad_request" ->
                ret' = ErrProtocol /\ cause' = "request" /\ UNCHANGED pc
           [] outcome = "refused" ->
                ret' = ErrWebSocket /\ cause' = "connect" /\ UNCHANGED pc
    /\ UNCHANGED << session_id, written, acks, discarded, failure_read,
                    pump, finished, pending, audio_q, result_q,
                    caller, chunk, sent, decoded, delivered, recv_ret, send_ret, close_called,
                    last_discarded, codec, speech >>

\* write.send(Message::Binary(frame)).await? of the handshake.
HandshakeWrite(at, frame, next) ==
    /\ pc = at /\ ret = Pending
    /\ \E ok \in BOOLEAN :
         IF ok
         THEN written' = Append(written, frame) /\ pc' = next /\ UNCHANGED <<ret, cause>>
         ELSE ret' = ErrWebSocket /\ cause' = "write" /\ UNCHANGED <<pc, written>>
    /\ UNCHANGED << session_id, acks, discarded, failure_read,
                    pump, finished, pending, audio_q, result_q,
                    caller, chunk, sent, decoded, delivered, recv_ret, send_ret, close_called,
                    last_discarded, codec, speech >>

\* 1. Send StartConnection
SendStartConnection ==
    HandshakeWrite("send_start_connection",
                   build_event_frame(STREAMING_EVENT_START_CONNECTION, None, EmptyObject),
                   "wait_connection_started")

\* session_payload: its config-dependent members (user, namespace, req_params)
\* are opaque to the protocol; the event member is kept.
session_payload == JObj(<< <<K_event, JNum(STREAMING_EVENT_START_SESSION)>> >>)

\* 2. Send StartSession
SendStartSession ==
    HandshakeWrite("send_start_session",
                   build_event_frame(STREAMING_EVENT_START_SESSION, Some(session_id),
                                     session_payload),
                   "wait_session_started")

\* Which kind of message wait_for_event read when it went round its loop: a
\* binary frame whose event parse_event cannot read ("malformed"), a binary
\* frame with another event ("event"), or a message that is not binary.
handshake_discard_class(item) ==
    IF item.kind = "Binary"
    THEN (IF parse_event(item.data) = None THEN "malformed" ELSE "event")
    ELSE "message"

\* wait_for_event(&mut read, expected_event).await? at position `at`; on Ok the
\* code goes on to `next`, and `spawn` says whether that is the spawn of the
\* pump and the return of Ok(Self{..}).
HandshakeWait(at, expected_event, next, spawn) ==
    /\ pc = at /\ ret = Pending
    /\ \E item \in Inbound(session_id, Len(decoded) + 1) :
         LET out == wait_for_event(item, expected_event)
         IN  IF out.done
             THEN /\ IF out.value = Ok
                     THEN /\ pc' = next
                          /\ acks' = Append(acks, <<parse_event(item.data)[1], Len(written)>>)
                          /\ ret' = (IF spawn THEN Ok ELSE ret)
                          /\ pump' = (IF spawn THEN "select" ELSE pump)
                          /\ caller' = (IF spawn THEN "idle" ELSE caller)
                          /\ UNCHANGED cause
                     ELSE /\ ret' = out.value
                          /\ cause' = (CASE item.kind = "End" -> "stream_end"
                                         [] item.kind = "Err" -> "read"
                                         [] OTHER -> "frame")
                          /\ UNCHANGED <<pc, acks, pump, caller>>
                  /\ UNCHANGED <<discarded, failure_read, last_discarded>>
             ELSE /\ discarded < MaxDiscarded
                  /\ discarded' = discarded + 1
                  /\ failure_read' = (failure_read \/ IsFailure(item, expected_event))
                  /\ last_discarded' = handshake_discard_class(item)
                  /\ UNCHANGED <<pc, acks, ret, cause, pump, caller>>
    /\ UNCHANGED << session_id, written, finished, pending, audio_q, result_q,
                    chunk, sent, decoded, delivered, recv_ret, send_ret, close_called,
                    codec, speech >>

\* Wait for ConnectionStarted
WaitConnectionStarted ==
    HandshakeWait("wait_connection_started", STREAMING_EVENT_CONNECTION_STARTED,
                  "send_start_session", FALSE)

\* Wait for SessionStarted, then tokio::spawn(..) and Ok(Self { .. })
WaitSessionStarted ==
    HandshakeWait("wait_session_started", STREAMING_EVENT_SESSION_STARTED,
                  "returned", TRUE)

(***************************************************************************)
(* The background task spawned by new: loop { tokio::select! { .. } }.     *)
(***************************************************************************)
\* audio_rx.is_closed(): every sender is dropped; the only one is in the handle.
audio_rx_is_closed == caller = "dropped"

\* The receiver of the result channel lives in the handle.
result_rx_dropped == caller = "dropped"

\* The tail of an iteration: `if finished && audio_rx.is_closed() { sleep(100ms) }`.
AfterIteration(fin) == IF fin /\ audio_rx_is_closed THEN "sleep" ELSE "select"

NumFinish(frames) ==
    Cardinality({ i \in DOMAIN frames :
                    parse_event(frames[i]) = Some(STREAMING_EVENT_FINISH_SESSION) })

\* `audio = audio_rx.recv()`: Some(data) while chunks are buffered, None once
\* the channel is closed and empty.
PumpAudio ==
    /\ pump = "select"
    /\ \/ /\ audio_q # <<>>
          /\ \E ok \in BOOLEAN :
               IF ok
               THEN /\ written' = Append(written, build_audio_frame(session_id, Head(audio_q)))
                    /\ audio_q' = Tail(audio_q)
                    /\ pump' = AfterIteration(finished)
               ELSE /\ pump' = "done"
                    /\ audio_q' = <<>>
                    /\ UNCHANGED written
          /\ UNCHANGED finished
       \/ /\ audio_q = <<>> /\ audio_rx_is_closed
          /\ NumFinish(written) < MaxFinish
          /\ \E ok \in BOOLEAN :
               written' = (IF ok
                           THEN Append(written,
                                       build_event_frame(STREAMING_EVENT_FINISH_SESSION,
                                                         Some(session_id), EmptyObject))
                           ELSE written)
          /\ finished' = TRUE
          /\ pump' = AfterIteration(TRUE)
          /\ UNCHANGED audio_q
    /\ UNCHANGED << pc, ret, cause, session_id, acks, discarded, failure_read,
                    pending, result_q, caller, chunk, sent, decoded, delivered,
                    recv_ret, send_ret, close_called,
                    last_discarded, codec, speech >>

\* The arm of `match msg` (and of the nested `match event`) an item takes.
pump_match(item, sid) ==
    CASE item.kind = "Binary" ->
            LET event == parse_event(item.data)
            IN  IF event = None THEN "ignore"
                ELSE IF event[1] = STREAMING_EVENT_ASR_RESULT
                     THEN (IF parse_asr_result(item.data, sid) = None
                           THEN "ignore" ELSE "result")
                ELSE IF event[1] = STREAMING_EVENT_SESSION_FINISHED
                     THEN "session_finished"
                ELSE "ignore"
      [] item.kind \in {"Close", "End"} -> "break"
      [] OTHER -> "ignore"

\* Which kind of message the pump read when it took an arm that does nothing:
\* a binary frame parse_event or parse_asr_result returned None on
\* ("malformed"), a binary frame with an event the pump has no arm for
\* ("event"), a failed read ("error"), or a text, ping or pong message.
pump_discard_class(item) ==
    CASE item.kind = "Binary" ->
            LET event == parse_event(item.data)
            IN  IF event = None THEN "malformed"
                ELSE IF event[1] = STREAMING_EVENT_ASR_RESULT THEN "malformed"
                ELSE "event"
      [] item.kind = "Err" -> "error"
      [] OTHER -> "message"

\* The pump going on after SessionFinished: FinishConnection is written and the
\* loop is not left.
PumpRead_no_break ==
    /\ pump = "select"
    /\ \E item \in Inbound(session_id, Len(decoded) + 1) :
         LET arm == pump_match(item, session_id)
         IN  CASE arm = "result" ->
                    LET result == parse_asr_result(item.data, session_id)[1]
                    IN  /\ Len(decoded) < MaxResults
                        /\ IF result_rx_dropped
                           THEN /\ pump' = AfterIteration(finished)
                                /\ UNCHANGED <<result_q, pending, decoded>>
                           ELSE IF Len(result_q) < ChannelCapacity
                           THEN /\ result_q' = Append(result_q, result)
                                /\ decoded' = Append(decoded, result)
                                /\ pump' = AfterIteration(finished)
                                /\ UNCHANGED pending
                           ELSE /\ pending' = Some(result)
                                /\ decoded' = Append(decoded, result)
                                /\ pump' = "publish"
                                /\ UNCHANGED result_q
                        /\ UNCHANGED <<written, audio_q, discarded, last_discarded>>
               [] arm = "session_finished" ->
                    /\ \E ok \in BOOLEAN :
                         written' = (IF ok
                                     THEN Append(written,
                                                 build_event_frame(STREAMING_EVENT_FINISH_CONNECTION,
                                                                   None, EmptyObject))
                                     ELSE written)
                    /\ pump' = AfterIteration(finished)
                    /\ UNCHANGED <<audio_q, decoded, result_q, pending, discarded,
                                    last_discarded>>
               [] arm = "break" ->
                    /\ pump' = "done"
                    /\ audio_q' = <<>>
                    /\ UNCHANGED <<written, decoded, result_q, pending, discarded,
                                    last_discarded>>
               [] OTHER ->
                    /\ discarded < MaxDiscarded
                    /\ discarded' = discarded + 1
                    /\ last_discarded' = pump_discard_class(item)
                    /\ pump' = AfterIteration(finished)
                    /\ UNCHANGED <<written, audio_q, decoded, result_q, pending>>
    /\ UNCHANGED << pc, ret, cause, session_id, acks, failure_read, finished,
                    caller, chunk, sent, delivered, recv_ret, send_ret, close_called,
                    codec, speech >>

\* `msg = read.next()`
PumpRead ==
    /\ pump = "select"
    /\ \E item \in Inbound(session_id, Len(decoded) + 1) :
         LET arm == pump_match(item, session_id)
         IN  CASE arm = "result" ->
                    LET result == parse_asr_result(item.data, session_id)[1]
                    IN  /\ Len(decoded) < MaxResults
                        /\ IF result_rx_dropped
                           THEN /\ pump' = AfterIteration(finished)
                                /\ UNCHANGED <<result_q, pending, decoded>>
                           ELSE IF Len(result_q) < ChannelCapacity
                           THEN /\ result_q' = Append(result_q, result)
                                /\ decoded' = Append(decoded, result)
                                /\ pump' = AfterIteration(finished)
                                /\ UNCHANGED pending
                           ELSE /\ pending' = Some(result)
                                /\ decoded' = Append(decoded, result)
                                /\ pump' = "publish"
                                /\ UNCHANGED result_q
                        /\ UNCHANGED <<written, audio_q, discarded, last_discarded>>
               [] arm = "session_finished" ->
                    /\ \E ok \in BOOLEAN :
                         written' = (IF ok
                                     THEN Append(written,
                                                 build_event_frame(STREAMING_EVENT_FINISH_CONNECTION,
                                                                   None, EmptyObject))
                                     ELSE written)
                    /\ pump' = "done"
                    /\ audio_q' = <<>>
                    /\ UNCHANGED <<decoded, result_q, pending, discarded, last_discarded>>
               [] arm = "break" ->
                    /\ pump' = "done"
                    /\ audio_q' = <<>>
                    /\ UNCHANGED <<written, decoded, result_q, pending, discarded,
                                    last_discarded>>
               [] OTHER ->
                    /\ discarded < MaxDiscarded
                    /\ discarded' = discarded + 1
                    /\ last_discarded' = pump_discard_class(item)
                    /\ pump' = AfterIteration(finished)
                    /\ UNCHANGED <<written, audio_q, decoded, result_q, pending>>
    /\ UNCHANGED << pc, ret, cause, session_id, acks, failure_read, finished,
                    caller, chunk, sent, delivered, recv_ret, send_ret, close_called,
                    codec, speech >>

\* The suspended send abandoned: the pump goes on and the result it held is lost.
PumpPublishLossy ==
    /\ pump = "publish"
    /\ pending' = None
    /\ pump' = AfterIteration(finished)
    /\ UNCHANGED << pc, ret, cause, session_id, written, acks, discarded, failure_read,
                    finished, audio_q, result_q, caller, chunk, sent, decoded, delivered,
                    recv_ret, send_ret, close_called,
                    last_discarded, codec, speech >>

\* A suspended `result_tx.send(result).await` completes: with Ok once the
\* channel has room, with Err (ignored by `let _ =`) once the receiver is gone.
PumpPublish ==
    /\ pump = "publish"
    /\ IF result_rx_dropped
       THEN UNCHANGED result_q
       ELSE /\ Len(result_q) < ChannelCapacity
            /\ result_q' = Append(result_q, pending[1])
    /\ pending' = None
    /\ pump' = AfterIteration(finished)
    /\ UNCHANGED << pc, ret, cause, session_id, written, acks, discarded, failure_read,
                    finished, audio_q, caller, chunk, sent, decoded, delivered,
                    recv_ret, send_ret, close_called,
                    last_discarded, codec, speech >>

\* tokio::time::sleep(100ms) elapses.
PumpWake ==
    /\ pump = "sleep"
    /\ pump' = "select"
    /\ UNCHANGED << pc, ret, cause, session_id, written, acks, discarded, failure_read,
                    finished, pending, audio_q, result_q, caller, chunk, sent, decoded,
                    delivered, recv_ret, send_ret, close_called,
                    last_discarded, codec, speech >>

(***************************************************************************)
(* The holder of the StreamingSession.  send_audio takes &self and recv    *)
(* takes &mut self, so one call is in progress at a time.                  *)
(***************************************************************************)
\* session.send_audio(data) is called.
CallSendAudio ==
    /\ caller = "idle"
    /\ Len(sent) < MaxChunks
    /\ chunk' = Chunk(Len(sent) + 1)
    /\ caller' = "send_audio"
    /\ UNCHANGED << pc, ret, cause, session_id, written, acks, discarded, failure_read,
                    pump, finished, pending, audio_q, result_q, sent, decoded,
                    delivered, recv_ret, send_ret, close_called,
                    last_discarded, codec, speech >>

\* send_audio queueing the chunk ahead of the chunks already buffered.
send_audio_front ==
    /\ caller = "send_audio"
    /\ IF pump = "done"
       THEN /\ send_ret' = "Err"
            /\ UNCHANGED <<audio_q, sent>>
       ELSE /\ Len(audio_q) < ChannelCapacity
            /\ audio_q' = <<chunk>> \o audio_q
            /\ sent' = Append(sent, chunk)
            /\ send_ret' = "Ok"
    /\ caller' = "idle"
    /\ chunk' = <<>>
    /\ UNCHANGED << pc, ret, cause, session_id, written, acks, discarded, failure_read,
                    pump, finished, pending, result_q, decoded, delivered, recv_ret,
                    close_called,
                    last_discarded, codec, speech >>

\* send_audio that does not notice the receiver is gone: the chunk is buffered
\* and Ok returned whatever the pump's state.
send_audio_unchecked ==
    /\ caller = "send_audio"
    /\ Len(audio_q) < ChannelCapacity
    /\ audio_q' = Append(audio_q, chunk)
    /\ sent' = Append(sent, chunk)
    /\ send_ret' = "Ok"
    /\ caller' = "idle"
    /\ chunk' = <<>>
    /\ UNCHANGED << pc, ret, cause, session_id, written, acks, discarded, failure_read,
                    pump, finished, pending, result_q, decoded, delivered, recv_ret,
                    close_called,
                    last_discarded, codec, speech >>

\* self.audio_tx.send(data).await.map_err(..) completes.
send_audio ==
    /\ caller = "send_audio"
    /\ IF pump = "done"
       THEN /\ send_ret' = "Err"
            /\ UNCHANGED <<audio_q, sent>>
       ELSE /\ Len(audio_q) < ChannelCapacity
            /\ audio_q' = Append(audio_q, chunk)
            /\ sent' = Append(sent, chunk)
            /\ send_ret' = "Ok"
    /\ caller' = "idle"
    /\ chunk' = <<>>
    /\ UNCHANGED << pc, ret, cause, session_id, written, acks, discarded, failure_read,
                    pump, finished, pending, result_q, decoded, delivered, recv_ret,
                    close_called,
                    last_discarded, codec, speech >>

\* session.recv() is called.
CallRecv ==
    /\ caller = "idle"
    /\ caller' = "recv"
    /\ UNCHANGED << pc, ret, cause, session_id, written, acks, discarded, failure_read,
                    pump, finished, pending, audio_q, result_q, chunk, sent, decoded,
                    delivered, recv_ret, send_ret, close_called,
                    last_discarded, codec, speech >>

\* recv handing out the newest buffered result first.
recv_newest ==
    /\ caller = "recv"
    /\ IF result_q # <<>>
       THEN /\ delivered' = Append(delivered, result_q[Len(result_q)])
            /\ result_q' = SubSeq(result_q, 1, Len(result_q) - 1)
            /\ recv_ret' = "Some"
       ELSE /\ pump = "done"
            /\ recv_ret' = "None"
            /\ UNCHANGED <<delivered, result_q>>
    /\ caller' = "idle"
    /\ UNCHANGED << pc, ret, cause, session_id, written, acks, discarded, failure_read,
                    pump, finished, pending, audio_q, chunk, sent, decoded, send_ret,
                    close_called,
                    last_discarded, codec, speech >>

\* recv returning None as soon as the pump is gone, buffered results or not.
recv_no_drain ==
    /\ caller = "recv"
    /\ IF pump = "done"
       THEN /\ recv_ret' = "None"
            /\ UNCHANGED <<delivered, result_q>>
       ELSE /\ result_q # <<>>
            /\ delivered' = Append(delivered, Head(result_q))
            /\ result_q' = Tail(result_q)
            /\ recv_ret' = "Some"
    /\ caller' = "idle"
    /\ UNCHANGED << pc, ret, cause, session_id, written, acks, discarded, failure_read,
                    pump, finished, pending, audio_q, chunk, sent, decoded, send_ret,
                    close_called,
                    last_discarded, codec, speech >>

\* self.result_rx.recv().await completes.
recv ==
    /\ caller = "recv"
    /\ IF result_q # <<>>
       THEN /\ delivered' = Append(delivered, Head(result_q))
            /\ result_q' = Tail(result_q)
            /\ recv_ret' = "Some"
       ELSE /\ pump = "done"
            /\ recv_ret' = "None"
            /\ UNCHANGED <<delivered, result_q>>
    /\ caller' = "idle"
    /\ UNCHANGED << pc, ret, cause, session_id, written, acks, discarded, failure_read,
                    pump, finished, pending, audio_q, chunk, sent, decoded, send_ret,
                    close_called,
                    last_discarded, codec, speech >>

\* session.close(): the body is empty.
close ==
    /\ caller = "idle"
    /\ close_called' = TRUE
    /\ UNCHANGED << pc, ret, cause, session_id, written, acks, discarded, failure_read,
                    pump, finished, pending, audio_q, result_q, caller, chunk, sent,
                    decoded, delivered, recv_ret, send_ret,
                    last_discarded, codec, speech >>

\* A drop that aborts the pump's input: the chunks still buffered are thrown away.
DropSession_abort ==
    /\ caller = "idle"
    /\ caller' = "dropped"
    /\ result_q' = <<>>
    /\ audio_q' = <<>>
    /\ UNCHANGED << pc, ret, cause, session_id, written, acks, discarded, failure_read,
                    pump, finished, pending, chunk, sent, decoded, delivered,
                    recv_ret, send_ret, close_called,
                    last_discarded, codec, speech >>

\* The StreamingSession is dropped: audio_tx and result_rx go with it (the
\* buffered results are freed); dropping the JoinHandle detaches the task.
DropSession ==
    /\ caller = "idle"
    /\ caller' = "dropped"
    /\ result_q' = <<>>
    /\ UNCHANGED << pc, ret, cause, session_id, written, acks, discarded, failure_read,
                    pump, finished, pending, audio_q, chunk, sent, decoded, delivered,
                    recv_ret, send_ret, close_called,
                    last_discarded, codec, speech >>

Next ==
    \/ Connect
    \/ SendStartConnection
    \/ WaitConnectionStarted
    \/ SendStartSession
    \/ WaitSessionStarted
    \/ PumpAudio
    \/ PumpRead
    \/ PumpPublish
    \/ PumpWake
    \/ CallSendAudio
    \/ send_audio
    \/ CallRecv
    \/ recv
    \/ close
    \/ DropSession

Spec == Init /\ [][Next]_vars

(***************************************************************************)
(* Fairness.  The executor keeps polling a task that can make progress, so *)
(* every step the program can take on its own is weakly fair: the          *)
(* handshake's connect and writes, the pump's handling of a buffered chunk *)
(* or a closed input channel, the completion of a suspended channel send   *)
(* or receive, the end of the sleep.  What the server sends and when the   *)
(* caller calls or drops the session is not the program's to decide; the   *)
(* one assumption on them is a cooperative peer and caller: a server that  *)
(* answers a written FinishSession with SessionFinished, and a caller that *)
(* goes on calling recv() after close().                                   *)
(***************************************************************************)
ServerAnswersFinish ==
    /\ NumFinish(written) > 0
    /\ PumpRead
    /\ pump' = "done"

RecvAfterClose == close_called /\ CallRecv

FairSpec ==
    /\ Spec
    /\ WF_vars(Connect)
    /\ WF_vars(SendStartConnection)
    /\ WF_vars(SendStartSession)
    /\ WF_vars(PumpAudio)
    /\ WF_vars(PumpPublish)
    /\ WF_vars(PumpWake)
    /\ WF_vars(send_audio)
    /\ WF_vars(recv)
    /\ SF_vars(ServerAnswersFinish)
    /\ SF_vars(RecvAfterClose)

\* FairSpec with a caller that follows the crate's documented usage to its
\* end: whenever it is left free to, it calls recv() (lib.rs: `while let
\* Some(result) = session.recv().await`).  A caller suspended in send_audio is
\* not free to.
ReceivingCallerSpec ==
    /\ FairSpec
    /\ WF_vars(CallRecv)

(***************************************************************************)
(* The frame codec applied on its own.  The arguments are drawn at the     *)
(* start; a builder makes a frame of them, the frame may then have its     *)
(* message type replaced by the server's audio-only type, be cut short or  *)
(* have a byte of a length field overwritten, and the decoders are applied *)
(* to what results.  No session runs meanwhile.                            *)
(***************************************************************************)
\* Event codes: small ones, one above 16 bits, and the ends of i32.
CodecEvents == { 0, STREAMING_EVENT_ASR_RESULT, 70000, -1, 2147483647, -2147483647 - 1 }
CodecPayloads == { EmptyObject, ResultDoc(1) }
CodecAudio == { <<>>, <<7>>, <<8, 9>> }
\* Values written over a byte of a length field.
LengthBytes == { 0, 3, 255 }

CodecInit ==
    /\ SessionInit
    /\ speech = SpeechIdle
    /\ \E event \in CodecEvents, sid \in {None, Some(session_id)},
          payload \in CodecPayloads, audio \in CodecAudio :
         codec = [CodecIdle EXCEPT !.stage = "input", !.event = event,
                                   !.session_id = sid, !.payload = payload,
                                   !.audio = audio]

CodecStep(next) == codec' = next /\ UNCHANGED <<session_vars, speech>>

Built(kind, frame) ==
    [codec EXCEPT !.stage = "frame", !.built = kind, !.edit = "none", !.buf = frame]

\* asr/streaming.rs build_event_frame
CodecBuildEventFrame ==
    /\ codec.stage = "input"
    /\ CodecStep(Built("asr_event",
                       build_event_frame(codec.event, codec.session_id, codec.payload)))

\* spec/tts/protocol.rs build_event_frame
CodecBuildEventFrameTts ==
    /\ codec.stage = "input"
    /\ CodecStep(Built("tts_event",
                       tts_build_event_frame(codec.event, codec.session_id, codec.payload)))

\* build_audio_frame(session_id: &str, ..): the session id is always given.
CodecBuildAudioFrame ==
    /\ codec.stage = "input"
    /\ codec.session_id # None
    /\ CodecStep(Built("audio", build_audio_frame(codec.session_id[1], codec.audio)))

\* A result frame as the server sends it.
CodecServerResult ==
    /\ codec.stage = "input"
    /\ codec.session_id # None
    /\ CodecStep(Built("result", ServerFrame(STREAMING_EVENT_ASR_RESULT, codec.session_id,
                                             JsonToString(codec.payload))))

\* The message type at offset 1 replaced by MSG_TYPE_AUDIO_ONLY.
CodecForceAudioOnly ==
    /\ codec.stage = "frame" /\ codec.edit = "none"
    /\ CodecStep([codec EXCEPT !.edit = "forced",
                               !.buf = [codec.buf EXCEPT ![2] = MSG_TYPE_AUDIO_ONLY]])

\* Only the first n bytes are kept.
CodecTruncate ==
    /\ codec.stage = "frame" /\ codec.edit \in {"none", "forced"}
    /\ \E n \in 0..(Len(codec.buf) - 1) :
         CodecStep([codec EXCEPT !.edit = "truncated", !.buf = SubSeq(codec.buf, 1, n)])

\* 1-based positions of the bytes of the frame's length fields: the
\* session-id length (when a session id is there) and the payload length.
LengthFieldPositions ==
    IF codec.session_id = None
    THEN 9..12
    ELSE (9..12) \cup ((12 + Len(codec.session_id[1]) + 1)..(12 + Len(codec.session_id[1]) + 4))

\* One byte of a length field overwritten.
CodecPatchLength ==
    /\ codec.stage = "frame" /\ codec.edit \in {"none", "forced"}
    /\ \E i \in LengthFieldPositions, v \in LengthBytes :
         CodecStep([codec EXCEPT !.edit = "patched",
                                 !.buf = [codec.buf EXCEPT ![i] = v]])

\* The decoders applied to the buffer.
CodecDecode ==
    /\ codec.stage = "frame"
    /\ CodecStep([codec EXCEPT
           !.stage = "decoded",
           !.out = [event |-> parse_event(codec.buf),
                    tts_event |-> tts_parse_event(codec.buf),
                    audio |-> extract_audio_from_frame(codec.buf),
                    result |-> parse_asr_result(codec.buf,
                                                unwrap_or(codec.session_id, <<>>))]])

CodecNext ==
    \/ CodecBuildEventFrame
    \/ CodecBuildEventFrameTts
    \/ CodecBuildAudioFrame
    \/ CodecServerResult
    \/ CodecForceAudioOnly
    \/ CodecTruncate
    \/ CodecPatchLength
    \/ CodecDecode

CodecSpec == CodecInit /\ [][CodecNext]_vars

(***************************************************************************)
(* Speech::create (tts/speech.rs): one bidirectional TTS call, run to its  *)
(* return.  The session id is the uuid the call generates.                 *)
(***************************************************************************)
EVENT_START_CONNECTION == 1
EVENT_CONNECTION_STARTED == 50
EVENT_START_SESSION == 100
EVENT_SESSION_STARTED == 150
EVENT_TASK_REQUEST == 200
EVENT_TTS_SENTENCE_START == 350
EVENT_TTS_SENTENCE_END == 351
EVENT_TTS_RESPONSE == 352
EVENT_SESSION_FINISHED == 152
EVENT_FINISH_SESSION == 102
EVENT_FINISH_CONNECTION == 2

\* A frame of the TTS server: message type, event, session id, payload bytes.
TtsServerFrame(msg_type, event, sid, payload_bytes) ==
    <<PROTOCOL_VERSION, msg_type, SERIALIZATION_JSON + NO_COMPRESSION, RESERVED>>
    \o to_be_bytes(event)
    \o to_be_bytes(Len(sid)) \o sid
    \o to_be_bytes(Len(payload_bytes)) \o payload_bytes

\* The k-th audio frame of the server: audio-only, event TTSResponse.
TtsAudioFrame(sid, k) ==
    TtsServerFrame(MSG_TYPE_AUDIO_ONLY, EVENT_TTS_RESPONSE, sid, Chunk(k))

\* Binary frames that carry no audio: sentence marks, SessionFinished, the
\* handshake acknowledgements, and frames of 3 and of 6 bytes.
TtsControlFrames(sid) ==
    { TtsServerFrame(MSG_TYPE_FULL_SERVER, EVENT_TTS_SENTENCE_START, sid, EmptyPayload),
      TtsServerFrame(MSG_TYPE_FULL_SERVER, EVENT_TTS_SENTENCE_END, sid, EmptyPayload),
      TtsServerFrame(MSG_TYPE_FULL_SERVER, EVENT_SESSION_FINISHED, sid, EmptyPayload),
      TtsServerFrame(MSG_TYPE_FULL_SERVER, EVENT_SESSION_STARTED, sid, EmptyPayload),
      ServerFrame(EVENT_CONNECTION_STARTED, None, EmptyPayload),
      <<PROTOCOL_VERSION, MSG_TYPE_FULL_SERVER, SERIALIZATION_JSON + NO_COMPRESSION>>,
      <<PROTOCOL_VERSION, MSG_TYPE_FULL_SERVER, SERIALIZATION_JSON + NO_COMPRESSION,
        RESERVED, 0, 0>> }

\* What read.next() can yield to Speech::create, k - 1 audio frames having been read.
SpeechInbound(sid, k) ==
    { Binary(d) : d \in TtsControlFrames(sid) \cup {TtsAudioFrame(sid, k)} }
    \cup { Other(kind) : kind \in {"Text", "Ping", "Pong", "Frame", "Close", "Err", "End"} }

\* start_session_payload and task_payload: the members that depend on the
\* request (user, namespace, req_params with the text) are opaque to the
\* protocol; the event member is kept.
start_session_payload == JObj(<< <<K_event, JNum(EVENT_START_SESSION)>> >>)
task_payload == JObj(<< <<K_event, JNum(EVENT_TASK_REQUEST)>> >>)

SpeechStep(next) == speech' = next /\ UNCHANGED <<session_vars, codec>>

SpeechRunning(at) == speech.pc = at /\ speech.ret = Pending

\* Request::builder()...body(()) and connect_async(ws_request).await?
SpeechConnect ==
    /\ SpeechRunning("connect")
    /\ \E outcome \in {"connected", "bad_request", "refused"} :
         SpeechStep(CASE outcome = "connected" ->
                            [speech EXCEPT !.pc = "send_start_connection"]
                      [] outcome = "bad_request" -> [speech EXCEPT !.ret = ErrProtocol]
                      [] outcome = "refused" -> [speech EXCEPT !.ret = ErrWebSocket])

\* write.send(Message::Binary(frame)).await? of Speech::create.
SpeechWrite(at, frame, next) ==
    /\ SpeechRunning(at)
    /\ \E ok \in BOOLEAN :
         SpeechStep(IF ok
                    THEN [speech EXCEPT !.written = Append(@, frame), !.pc = next]
                    ELSE [speech EXCEPT !.ret = ErrWebSocket])

\* Self::wait_for_event(&mut read, expected_event).await? of Speech::create;
\* the function is the loop of the ASR wait_for_event with log lines.
SpeechWait(at, expected_event, next) ==
    /\ SpeechRunning(at)
    /\ \E item \in SpeechInbound(session_id, speech.frames + 1) :
         LET out == wait_for_event(item, expected_event)
         IN  IF out.done
             THEN SpeechStep(IF out.value = Ok
                             THEN [speech EXCEPT !.pc = next]
                             ELSE [speech EXCEPT !.ret = out.value])
             ELSE /\ speech.discarded < MaxDiscarded
                  /\ SpeechStep([speech EXCEPT !.discarded = @ + 1])

\* 1. Send StartConnection
SpeechSendStartConnection ==
    SpeechWrite("send_start_connection",
                tts_build_event_frame(EVENT_START_CONNECTION, None, EmptyObject),
                "wait_connection_started")

SpeechWaitConnectionStarted ==
    SpeechWait("wait_connection_started", EVENT_CONNECTION_STARTED, "send_start_session")

\* 2. Send StartSession
SpeechSendStartSession ==
    SpeechWrite("send_start_session",
                tts_build_event_frame(EVENT_START_SESSION, Some(session_id),
                                      start_session_payload),
                "wait_session_started")

SpeechWaitSessionStarted ==
    SpeechWait("wait_session_started", EVENT_SESSION_STARTED, "send_end_session")

\* end_session_frame: the frame written after SessionStarted.  task_payload is
\* built after it and never written.
SpeechSendEndSession ==
    SpeechWrite("send_end_session",
                tts_build_event_frame(EVENT_SESSION_FINISHED, Some(session_id), EmptyObject),
                "receive")

\* The arm of the receive loop's matches an item takes: "continue" and
\* "nothing" go round the loop, "audio" extends audio_data, "break" leaves
\* the loop, "invalid" and "error" return Err.
speech_match(item) ==
    CASE item.kind = "Binary" ->
            IF Len(item.data) < 4 THEN "continue"
            ELSE LET event == tts_parse_event(item.data)
                 IN  IF event = None THEN "invalid"
                     ELSE IF event[1] \in {EVENT_TTS_RESPONSE, EVENT_TTS_SENTENCE_START,
                                           EVENT_TTS_SENTENCE_END}
                          THEN (IF extract_audio_from_frame(item.data) = None
                                THEN "nothing" ELSE "audio")
                     ELSE IF event[1] = EVENT_SESSION_FINISHED THEN "break"
                     ELSE "nothing"
      [] item.kind \in {"Text", "Frame"} -> "nothing"
      [] item.kind \in {"Close", "Ping", "Pong", "End"} -> "break"
      [] item.kind = "Err" -> "error"

\* What the last message read in the receive loop was.
speech_item_class(item) ==
    IF item.kind = "Binary"
    THEN (IF tts_parse_event(item.data) = Some(EVENT_SESSION_FINISHED)
          THEN "SessionFinished"
          ELSE IF speech_match(item) = "audio" THEN "Audio" ELSE "Binary")
    ELSE item.kind

\* 4. Receive audio data: one turn of the loop on `read.next().await`.
SpeechReceive ==
    /\ SpeechRunning("receive")
    /\ \E item \in SpeechInbound(session_id, speech.frames + 1) :
         LET arm == speech_match(item)
             seen == [speech EXCEPT !.last = speech_item_class(item)]
         IN  CASE arm = "audio" ->
                    /\ speech.frames < MaxAudioFrames
                    /\ SpeechStep([seen EXCEPT
                           !.audio_data = @ \o extract_audio_from_frame(item.data)[1],
                           !.frames = @ + 1])
               [] arm = "break" -> SpeechStep([seen EXCEPT !.pc = "send_finish_session"])
               [] arm = "invalid" -> SpeechStep([seen EXCEPT !.ret = ErrProtocol])
               [] arm = "error" -> SpeechStep([seen EXCEPT !.ret = ErrWebSocket])
               [] OTHER ->
                    /\ speech.discarded < MaxDiscarded
                    /\ SpeechStep([seen EXCEPT !.discarded = @ + 1])

\* `let _ = write.send(..).await` of the finish frames: a failed write is dropped.
SpeechWriteIgnoringError(at, frame, next, returns) ==
    /\ SpeechRunning(at)
    /\ \E ok \in BOOLEAN :
         SpeechStep([speech EXCEPT
            !.written = IF ok THEN Append(@, frame) ELSE @,
            !.pc = next,
            !.ret = IF returns THEN Ok ELSE @])

\* 5. Send FinishSession
SpeechSendFinishSession ==
    SpeechWriteIgnoringError("send_finish_session",
        tts_build_event_frame(EVENT_FINISH_SESSION, Some(session_id), EmptyObject),
        "send_finish_connection", FALSE)

\* 6. Send FinishConnection, and Ok(CreateSpeechResponse::new(audio_data, ..))
SpeechSendFinishConnection ==
    SpeechWriteIgnoringError("send_finish_connection",
        tts_build_event_frame(EVENT_FINISH_CONNECTION, None, EmptyObject),
        "returned", TRUE)

SpeechInit ==
    /\ SessionInit
    /\ codec = CodecIdle
    /\ speech = [SpeechIdle EXCEPT !.pc = "connect"]

SpeechNext ==
    \/ SpeechConnect
    \/ SpeechSendStartConnection
    \/ SpeechWaitConnectionStarted
    \/ SpeechSendStartSession
    \/ SpeechWaitSessionStarted
    \/ SpeechSendEndSession
    \/ SpeechReceive
    \/ SpeechSendFinishSession
    \/ SpeechSendFinishConnection

SpeechSpec == SpeechInit /\ [][SpeechNext]_vars

(***************************************************************************)
(* Helpers of the properties.                                              *)
(***************************************************************************)
IsAudioFrame(frame) == Len(frame) >= 2 /\ frame[2] = STREAMING_MSG_AUDIO_ONLY_CLIENT

\* The audio frames among the frames written, in order.
AudioWritten == SelectSeq(written, IsAudioFrame)

\* The result the k-th result frame decodes to.
ExpectedResult(k) ==
    [session_id |-> session_id, text |-> <<96 + k>>, additions |-> None,
     is_final |-> (k % 2 = 1)]

HandleAlive == caller \in {"idle", "send_audio", "recv"}

Returned == ret # Pending
Failed == ret.tag \notin {"Pending", "Ok"}

\* The acknowledgement create_session awaits at its position.
Awaited ==
    IF pc = "wait_connection_started" THEN STREAMING_EVENT_CONNECTION_STARTED
    ELSE STREAMING_EVENT_SESSION_STARTED

(***************************************************************************)
(* C1. create_session returns Ok, and the pump runs, only after            *)
(* StartConnection (1) was written, then ConnectionStarted (50) read, then *)
(* StartSession (100) written, then SessionStarted (150) read; every audio *)
(* (TaskRequest) frame is written after SessionStarted was read.           *)
(***************************************************************************)
C1_HandshakeBeforeAudio ==
    /\ (ret = Ok \/ pump # "none" \/ caller # "none") =>
          /\ Len(written) >= 2
          /\ parse_event(written[1]) = Some(STREAMING_EVENT_START_CONNECTION)
          /\ parse_event(written[2]) = Some(STREAMING_EVENT_START_SESSION)
          /\ acks = << <<STREAMING_EVENT_CONNECTION_STARTED, 1>>,
                       <<STREAMING_EVENT_SESSION_STARTED, 2>> >>
          /\ ret = Ok
    /\ \A i \in DOMAIN written :
          (IsAudioFrame(written[i])
             \/ parse_event(written[i]) = Some(STREAMING_EVENT_TASK_REQUEST)) =>
             /\ Len(acks) = 2
             /\ acks[2][1] = STREAMING_EVENT_SESSION_STARTED
             /\ acks[2][2] < i

C1_Witness ==
    /\ ret = Ok
    /\ Len(AudioWritten) >= 1

(***************************************************************************)
(* C2. The results recv() returns are the decoded results of the result    *)
(* frames read, in the order read: the k-th returned is the k-th read, and *)
(* what was read and not yet returned waits, in order, in the channel (or  *)
(* in the suspended send).                                                 *)
(***************************************************************************)
C2_ResultsInOrder ==
    /\ \A k \in DOMAIN delivered : delivered[k] = ExpectedResult(k)
    /\ HandleAlive =>
          delivered \o result_q \o pending = [k \in 1..Len(decoded) |-> ExpectedResult(k)]

C2_Witness ==
    /\ Len(delivered) = MaxResults
    /\ delivered = decoded

(***************************************************************************)
(* C3. recv() returns None only when the pump has terminated and every     *)
(* result it published has been returned: nothing is buffered or held.     *)
(***************************************************************************)
C3_NoneOnlyAfterDrain ==
    recv_ret = "None" =>
        /\ pump = "done"
        /\ result_q = <<>>
        /\ pending = None
        /\ delivered = decoded

C3_Witness ==
    /\ recv_ret = "None"
    /\ Len(delivered) >= 2

(***************************************************************************)
(* C4. The result channel never holds more than its capacity; a publish    *)
(* into a full channel suspends the pump holding the result; with a        *)
(* consumer that has not called recv() that is the (C+1)-th result; the    *)
(* suspended publish can complete as soon as the channel has room; and no  *)
(* result is lost: every result read is returned, buffered or held.        *)
(***************************************************************************)
C4_Backpressure ==
    /\ Len(result_q) <= ChannelCapacity
    /\ (pump = "publish") = (pending # None)
    /\ (pump = "publish" /\ HandleAlive) =>
          /\ pending = Some(ExpectedResult(Len(decoded)))
          /\ delivered = <<>> =>
                (Len(result_q) = ChannelCapacity /\ Len(decoded) = ChannelCapacity + 1)
          /\ Len(result_q) < ChannelCapacity => ENABLED PumpPublish
    /\ HandleAlive => Len(delivered) + Len(result_q) + Len(pending) = Len(decoded)

C4_Witness ==
    /\ pump = "publish"
    /\ HandleAlive
    /\ delivered = <<>>
    /\ Len(result_q) = ChannelCapacity

(***************************************************************************)
(* C5. The audio frames written are, in order, the frames of the chunks    *)
(* whose send_audio call completed: one frame per chunk, none repeated or  *)
(* reordered; the chunks not yet written wait, in order, in the channel.   *)
(***************************************************************************)
C5_AudioInOrder ==
    /\ Len(AudioWritten) <= Len(sent)
    /\ \A i \in DOMAIN AudioWritten :
          AudioWritten[i] = build_audio_frame(session_id, sent[i])
    /\ pump \in {"select", "publish", "sleep"} =>
          audio_q = SubSeq(sent, Len(AudioWritten) + 1, Len(sent))

C5_Witness ==
    /\ Len(AudioWritten) >= 2
    /\ audio_q # <<>>

(***************************************************************************)
(* C6. After close() on a session whose pump is running, the FinishSession *)
(* (102) frame is eventually written (or the pump has ended meanwhile).    *)
(***************************************************************************)
C6_CloseFinishesSession ==
    (close_called /\ pump # "done") ~> (NumFinish(written) > 0 \/ pump = "done")

(***************************************************************************)
(* C7. After close(), a caller that goes on calling recv() eventually gets *)
(* None (unless it drops the session).                                     *)
(***************************************************************************)
C7_RecvEndsAfterClose ==
    close_called ~> (recv_ret = "None" \/ caller = "dropped")

(***************************************************************************)
(* C8. create_session eventually returns, whatever the server does: with   *)
(* a silent server it returns a timeout error.                             *)
(***************************************************************************)
C8_CreateSessionReturns == <>Returned

(***************************************************************************)
(* C9. Once a ConnectionFailed (51) frame was read while ConnectionStarted *)
(* was awaited, or a SessionFailed (153) frame while SessionStarted was,   *)
(* create_session has returned an error.                                   *)
(***************************************************************************)
C9_FailureEventFails == failure_read => Failed

(***************************************************************************)
(* C10. When the inbound stream ends during a wait, create_session returns *)
(* EventNotReceived with the awaited event code; when a transport read or  *)
(* write (or the connect) fails it returns WebSocket; whenever it fails no *)
(* handle exists and no pump was spawned.                                  *)
(***************************************************************************)
C10_HandshakeErrors ==
    /\ (cause # "-") = Failed
    /\ Failed =>
          /\ pump = "none"
          /\ caller = "none"
          /\ cause = "stream_end" =>
                /\ pc \in {"wait_connection_started", "wait_session_started"}
                /\ ret = ErrEventNotReceived(Awaited)
          /\ cause \in {"read", "write", "connect"} => ret = ErrWebSocket
          /\ cause = "read" => pc \in {"wait_connection_started", "wait_session_started"}

C10_Witness ==
    /\ ret = ErrEventNotReceived(STREAMING_EVENT_SESSION_STARTED)
    /\ cause = "stream_end"

(***************************************************************************)
(* C11: while create_session awaits an acknowledgement, a binary frame     *)
(* with another event code, or a message that is not binary, is dropped:   *)
(* no message that was read makes create_session fail, nothing is put in   *)
(* a channel, the handshake stays at the step it was at, and the awaited   *)
(* event can still arrive and complete that step.                          *)
(***************************************************************************)
HandshakeWaiting ==
    ret = Pending /\ pc \in {"wait_connection_started", "wait_session_started"}

AckArrives ==
    /\ WaitConnectionStarted \/ WaitSessionStarted
    /\ Len(acks') = Len(acks) + 1

C11_UnrelatedDiscarded ==
    /\ cause # "frame"
    /\ (pump = "none" /\ last_discarded \in {"event", "message"}) =>
          /\ result_q = <<>> /\ audio_q = <<>> /\ decoded = <<>> /\ pending = None
          /\ pc = "wait_connection_started" => acks = <<>>
          /\ pc = "wait_session_started" => Len(acks) = 1
          /\ HandshakeWaiting => ENABLED AckArrives

C11_Witness ==
    /\ pc = "send_start_session"
    /\ last_discarded \in {"event", "message"}
    /\ Len(acks) = 1

(***************************************************************************)
(* C12: in the Active state a transport error ends the pump; stated for    *)
(* the failed read: once the pump has read Some(Err(_)) from the socket it *)
(* has terminated.                                                         *)
(***************************************************************************)
C12_TransportErrorFails ==
    last_discarded = "error" => pump = "done"

(***************************************************************************)
(* C13: a binary frame that cannot be decoded is never skipped: after one  *)
(* was read, create_session has failed or, in the Active state, the pump   *)
(* has terminated.                                                         *)
(***************************************************************************)
C13_MalformedFails ==
    last_discarded = "malformed" => (Failed \/ pump = "done")

(***************************************************************************)
(* C14: a send_audio call that completes after the pump has terminated     *)
(* returns Err, buffers nothing and no frame is written from then on; one  *)
(* that completes while the pump is alive returns Ok, and it can complete  *)
(* whenever the pump is alive and the audio channel has room.              *)
(***************************************************************************)
SendAudioReturns == caller = "send_audio" /\ caller' = "idle"

C14_SendAfterTermination ==
    /\ [][ /\ SendAudioReturns =>
                IF pump = "done"
                THEN /\ send_ret' = "Err"
                     /\ UNCHANGED <<written, audio_q, sent>>
                ELSE send_ret' = "Ok"
           /\ pump = "done" => UNCHANGED <<pump, written>> ]_vars
    /\ []( (caller = "send_audio" /\ pump # "done" /\ Len(audio_q) < ChannelCapacity)
              => ENABLED send_audio )

C14_Witness ==
    /\ pump = "done" /\ caller = "idle"
    /\ send_ret = "Err"
    /\ sent # <<>>

(***************************************************************************)
(* C15: parse_event applied to what build_event_frame built returns the    *)
(* event the frame was built with, whatever the event code, the session id *)
(* and the payload, for the ASR copy of the codec and for the TTS one.     *)
(***************************************************************************)
DecodedAsBuilt(kind) ==
    codec.stage = "decoded" /\ codec.edit = "none" /\ codec.built = kind

C15_EventRoundTrip ==
    /\ DecodedAsBuilt("asr_event") => codec.out.event = Some(codec.event)
    /\ DecodedAsBuilt("tts_event") => codec.out.tts_event = Some(codec.event)

C15_Witness ==
    /\ DecodedAsBuilt("asr_event")
    /\ codec.event = -2147483647 - 1
    /\ codec.session_id # None
    /\ codec.out.event = Some(codec.event)

(***************************************************************************)
(* C16: parse_event returns None exactly on the inputs shorter than 8      *)
(* bytes, the first n bytes (n from 0 to 7) of a well-formed frame among   *)
(* them, and Some on every input of 8 bytes or more.                       *)
(***************************************************************************)
C16_ShortFrameNone ==
    codec.stage = "decoded" =>
        /\ (codec.out.tts_event = None) <=> (Len(codec.buf) < 8)
        /\ (codec.out.event = None) <=> (Len(codec.buf) < 8)

C16_Witness ==
    /\ codec.stage = "decoded" /\ codec.edit = "truncated"
    /\ codec.built = "tts_event"
    /\ Len(codec.buf) = 7
    /\ codec.out.tts_event = None

(***************************************************************************)
(* C17: a frame build_event_frame built is the bytes 0x11 0x14 0x10 0x00,  *)
(* the event as four big-endian bytes, then, if and only if a session id   *)
(* was given, its length as a big-endian u32 and its bytes, then the       *)
(* length of the serialized payload as a big-endian u32 and the payload:   *)
(* the payload length field equals the number of bytes after it.           *)
(***************************************************************************)
EventFrameBuilt ==
    codec.stage = "frame" /\ codec.edit = "none" /\ codec.built \in {"asr_event", "tts_event"}

\* What follows the event field and, when there is one, the session id.
AfterSessionId(frame, sid) ==
    IF sid = None THEN SubSeq(frame, 9, Len(frame))
    ELSE SubSeq(frame, 12 + Len(sid[1]) + 1, Len(frame))

C17_FrameLayout ==
    EventFrameBuilt =>
        LET frame == codec.buf
            sid == codec.session_id
            rest == AfterSessionId(frame, sid)
        IN  /\ SubSeq(frame, 1, 4) = <<17, 20, 16, 0>>
            /\ i32_from_be_bytes(frame, 4) = codec.event
            /\ sid # None =>
                  /\ u32_from_be_bytes(frame, 8) = usize(Len(sid[1]))
                  /\ SubSeq(frame, 13, 12 + Len(sid[1])) = sid[1]
            /\ Len(rest) >= 4
            /\ u32_from_be_bytes(rest, 0) = usize(Len(rest) - 4)
            /\ SubSeq(rest, 5, Len(rest)) = JsonToString(codec.payload)

C17_Witness ==
    /\ EventFrameBuilt /\ codec.built = "tts_event"
    /\ codec.session_id # None
    /\ codec.payload # EmptyObject

(***************************************************************************)
(* C18: extract_audio_from_frame applied to build_audio_frame(session_id,  *)
(* bytes) with the message type replaced by 0xB4 returns Some(bytes), for  *)
(* bytes of any length, zero included.                                     *)
(***************************************************************************)
ForcedAudioDecoded ==
    codec.stage = "decoded" /\ codec.edit = "forced" /\ codec.built = "audio"

C18_AudioRoundTrip ==
    ForcedAudioDecoded => codec.out.audio = Some(codec.audio)

\* C18 as the code has it: Some(bytes) for one byte or more, None for none.
C18_NonEmptyAudioRoundTrip ==
    ForcedAudioDecoded =>
        codec.out.audio = (IF codec.audio = <<>> THEN None ELSE Some(codec.audio))

C18_Witness ==
    /\ ForcedAudioDecoded
    /\ Len(codec.audio) = 2
    /\ codec.out.audio = Some(codec.audio)

(***************************************************************************)
(* C19: extract_audio_from_frame returns None when the message type is not *)
(* 0xB4 and when the declared session-id length or the declared payload    *)
(* length passes the bytes present, and what it returns in Some is exactly *)
(* the declared payload.                                                   *)
(***************************************************************************)
\* Offset of the payload length field the frame declares (frame of 12 bytes or more).
DeclaredPayloadOffset(frame) == usize_add(usize(12), u32_from_be_bytes(frame, 8))

\* The session id and the payload length field lie within the frame.
PayloadLengthPresent(frame) ==
    /\ Len(frame) >= 12
    /\ ~ usize_lt(usize(Len(frame)), usize_add(DeclaredPayloadOffset(frame), usize(4)))

\* Offset of the first byte after the payload the frame declares.
DeclaredPayloadEnd(frame) ==
    usize_add(usize_add(DeclaredPayloadOffset(frame), usize(4)),
              u32_from_be_bytes(frame, usize_int(DeclaredPayloadOffset(frame))))

\* The frame's declared lengths stay within the bytes present.
LengthsWithinFrame(frame) ==
    /\ PayloadLengthPresent(frame)
    /\ ~ usize_lt(usize(Len(frame)), DeclaredPayloadEnd(frame))

DeclaredPayload(frame) ==
    SubSeq(frame, usize_int(DeclaredPayloadOffset(frame)) + 5,
           usize_int(DeclaredPayloadEnd(frame)))

C19_ExtractAudioChecked ==
    codec.stage = "decoded" =>
        LET frame == codec.buf
        IN  /\ (Len(frame) < 2 \/ frame[2] # 180) => codec.out.audio = None
            /\ ~ LengthsWithinFrame(frame) => codec.out.audio = None
            /\ codec.out.audio # None => codec.out.audio = Some(DeclaredPayload(frame))

(***************************************************************************)
(* C20: parse_asr_result returns None on a frame shorter than 12 bytes and *)
(* on a frame whose declared session-id length or declared payload length  *)
(* passes its end; it reads no byte outside the frame.                     *)
(***************************************************************************)
C20_AsrResultBounds ==
    codec.stage = "decoded" =>
        (~ LengthsWithinFrame(codec.buf) => codec.out.result = None)

C20_Witness ==
    /\ codec.stage = "decoded" /\ codec.edit = "patched"
    /\ codec.built = "result"
    /\ codec.buf[9] = 255
    /\ codec.out.result = None

(***************************************************************************)
(* C21: parse_asr_result returns Some only for a frame of message type     *)
(* 0x94 whose payload is JSON with a result object holding a string text   *)
(* and a boolean definite, and then text and is_final are those fields; a  *)
(* frame of another message type, or a payload of another shape, gives     *)
(* None.                                                                   *)
(***************************************************************************)
\* The document has the shape {result: {text: <string>, definite: <bool>}}.
HasResultShape(payload) ==
    LET result == JsonIndex(payload, K_result)
    IN  /\ as_str(JsonIndex(result, K_text)) # None
        /\ as_bool(JsonIndex(result, K_definite)) # None

C21_ResultShape ==
    (codec.stage = "decoded" /\ codec.out.result # None) =>
        LET parsed == JsonFromSlice(DeclaredPayload(codec.buf))
            result == JsonIndex(parsed[1], K_result)
        IN  /\ codec.buf[2] = 148
            /\ parsed # None
            /\ HasResultShape(parsed[1])
            /\ codec.out.result[1].text = as_str(JsonIndex(result, K_text))[1]
            /\ codec.out.result[1].is_final = as_bool(JsonIndex(result, K_definite))[1]

(***************************************************************************)
(* C22: Speech::create writes a TaskRequest (200) frame carrying the       *)
(* session id after SessionStarted was read and before it collects audio:  *)
(* once it collects, the frames written begin StartConnection,             *)
(* StartSession, TaskRequest, and all that can follow is FinishSession and *)
(* FinishConnection.                                                       *)
(***************************************************************************)
\* The event codes of the frames, in order.
FrameEvents(frames) == [i \in 1..Len(frames) |-> tts_parse_event(frames[i])[1]]

\* The session id field of a frame that has one.
FrameSessionId(frame) ==
    SubSeq(frame, 13, 12 + usize_int(u32_from_be_bytes(frame, 8)))

SpeechCollecting ==
    speech.pc \in {"receive", "send_finish_session", "send_finish_connection", "returned"}

C22_TaskRequestWritten ==
    SpeechCollecting =>
        /\ Len(speech.written) >= 3
        /\ SubSeq(FrameEvents(speech.written), 1, 3) = <<1, 100, 200>>
        /\ FrameSessionId(speech.written[3]) = session_id
        /\ SubSeq(FrameEvents(speech.written), 4, Len(speech.written))
              \in { <<>>, <<102>>, <<2>>, <<102, 2>> }

(***************************************************************************)
(* C23: a Ping or Pong read while Speech::create collects audio does not   *)
(* end the receive loop: after it the call is still collecting and has not *)
(* returned.                                                               *)
(***************************************************************************)
C23_KeepaliveTransparent ==
    speech.last \in {"Ping", "Pong"} =>
        (speech.pc = "receive" /\ speech.ret = Pending)

(***************************************************************************)
(* C29: every frame the client writes, in Speech::create and in the ASR    *)
(* session, carries one of the client's event codes: StartConnection (1),  *)
(* FinishConnection (2), StartSession (100), FinishSession (102),          *)
(* TaskRequest (200).                                                      *)
(***************************************************************************)
ClientEvents == {1, 2, 100, 102, 200}

C29_ClientEventCodes ==
    /\ \A i \in 1..Len(speech.written) :
          tts_parse_event(speech.written[i]) # None
          /\ tts_parse_event(speech.written[i])[1] \in ClientEvents
    /\ \A i \in 1..Len(written) :
          parse_event(written[i]) # None
          /\ parse_event(written[i])[1] \in ClientEvents

(***************************************************************************)
(* C24: after the handle is dropped the pump goes on: it reaches the       *)
(* FinishSession write unless a write fails or the server ends the session *)
(* first, and when it does, every chunk send_audio accepted has been       *)
(* written as an audio frame, in order; the FinishSession frame carries    *)
(* the session id and no audio frame follows it.                           *)
(***************************************************************************)
IsFinishSession(frame) == parse_event(frame) = Some(STREAMING_EVENT_FINISH_SESSION)

DrainedBeforeFinish ==
    finished =>
        /\ caller = "dropped" /\ audio_q = <<>>
        /\ AudioWritten = [i \in 1..Len(sent) |-> build_audio_frame(session_id, sent[i])]
        /\ \A i \in 1..Len(written) :
              IsFinishSession(written[i]) =>
                  /\ written[i] = build_event_frame(STREAMING_EVENT_FINISH_SESSION,
                                                    Some(session_id), EmptyObject)
                  /\ \A j \in (i + 1)..Len(written) : ~ IsAudioFrame(written[j])

C24_DrainThenFinish ==
    /\ []DrainedBeforeFinish
    /\ (caller = "dropped") ~> (finished \/ pump = "done")

C24_Witness ==
    /\ caller = "dropped" /\ finished
    /\ NumFinish(written) = 1
    /\ Len(AudioWritten) >= 2
    /\ IsFinishSession(written[Len(written)])

(***************************************************************************)
(* C25: on reading SessionFinished, whether FinishSession was written      *)
(* before or not, the pump writes one FinishConnection frame, which has no *)
(* session-id field, writes nothing after it and terminates; the result    *)
(* channel is then closed, and a recv() that finds it empty returns None.  *)
(***************************************************************************)
IsFinishConnection(frame) == parse_event(frame) = Some(STREAMING_EVENT_FINISH_CONNECTION)

NumFinishConnection == Cardinality({ i \in DOMAIN written : IsFinishConnection(written[i]) })

RecvReturnsNone == recv /\ recv_ret' = "None"

C25_SessionFinishedEnds ==
    /\ NumFinishConnection <= 1
    /\ NumFinishConnection = 1 =>
          LET frame == written[Len(written)]
          IN  /\ IsFinishConnection(frame)
              /\ u32_from_be_bytes(frame, 8) = usize(Len(frame) - 12)
              /\ pump = "done"
    /\ (pump = "done" /\ caller = "recv" /\ result_q = <<>>) => ENABLED RecvReturnsNone

C25_Witness ==
    /\ NumFinishConnection = 1
    /\ NumFinish(written) = 0
    /\ pump = "done"
    /\ recv_ret = "None"

(***************************************************************************)
(* C26: the pump serves its two inputs side by side: every chunk           *)
(* send_audio accepted is eventually written to the socket (or the pump    *)
(* has terminated), and the pump always comes back to reading the socket.  *)
(***************************************************************************)
C26_BothInputsServed ==
    /\ \A n \in 1..MaxChunks :
          (Len(sent) >= n) ~> (Len(AudioWritten) >= n \/ pump = "done")
    /\ (pump = "publish") ~> (pump # "publish")

(***************************************************************************)
(* C27: of the frames the session writes, StartConnection and              *)
(* FinishConnection have no session-id field; StartSession, FinishSession  *)
(* and the audio frames carry the session id, which never changes; the     *)
(* audio frames, and only they, have message type 0x24, and their event is *)
(* 200.                                                                    *)
(***************************************************************************)
\* The payload length follows the event at once: there is no session-id field.
FrameWithoutSessionId(frame) ==
    Len(frame) >= 12 /\ u32_from_be_bytes(frame, 8) = usize(Len(frame) - 12)

FrameCarriesSessionId(frame) ==
    /\ Len(frame) >= 12 + Len(session_id)
    /\ u32_from_be_bytes(frame, 8) = usize(Len(session_id))
    /\ SubSeq(frame, 13, 12 + Len(session_id)) = session_id

FramesWellFormed ==
    \A i \in 1..Len(written) :
        LET frame == written[i]
            event == parse_event(frame)[1]
        IN  /\ event \in {1, 2, 100, 102, 200}
            /\ event \in {1, 2} => FrameWithoutSessionId(frame)
            /\ event \in {100, 102, 200} => FrameCarriesSessionId(frame)
            /\ (event = 200) <=> (frame[2] = 36)

C27_FrameSessionIds ==
    /\ []FramesWellFormed
    /\ [][session_id' = session_id]_vars

C27_Witness ==
    /\ NumFinishConnection = 1
    /\ NumFinish(written) = 1
    /\ Len(AudioWritten) >= 1
    /\ Len(acks) = 2

(***************************************************************************)
(* C28: the pump writes the FinishSession frame at most once per session.  *)
(***************************************************************************)
C28_FinishSessionOnce == NumFinish(written) <= 1

(***************************************************************************)
(* C30: the caller and the pump never block each other: in no reachable    *)
(* state is the caller suspended in send_audio on a full audio channel     *)
(* while the pump is suspended publishing to a full result channel.        *)
(***************************************************************************)
CallerBlocked == caller = "send_audio" /\ Len(audio_q) = ChannelCapacity /\ pump # "done"

PumpBlocked == pump = "publish" /\ Len(result_q) = ChannelCapacity /\ ~ result_rx_dropped

C30_NoMutualBlock == ~ (CallerBlocked /\ PumpBlocked)

====
